---- MODULE Spec2Model ----
(***************************************************************************)
(* vidscribe: the batch orchestration of transcribeDir / transcribeFile.   *)
(*                                                                         *)
(* The repository holds three generations of the orchestrator:             *)
(*   "main"  : src/main.go            goroutines (wg.Go), no mutex,        *)
(*                                    output copied with Open/Create/Copy  *)
(*   "mutex" : src/unnamed/part_003   goroutines (wg.Go) + sync.RWMutex,   *)
(*                                    output moved with os.Rename          *)
(*   "seq"   : src/unnamed/part_001   sequential loop, WalkDir resolution, *)
(*                                    output moved with os.Rename          *)
(* The variable `variant` selects the generation; every action below is    *)
(* the translation of the named lines of that generation.                  *)
(***************************************************************************)
EXTENDS Integers, Sequences, FiniteSets, TLC

\* Largest number of entries of the input directory tree.
MaxFiles == 3

Variants == {"main", "mutex", "seq"}

Stages == <<"Extracting", "Transcribing", "Formatting", "Burning", "Placing">>

----------------------------------------------------------------------------
(* Paths and the input universe *)

\* filepath.Join of two elements (an empty element is dropped).
Join(a, b) == IF a = "" THEN b ELSE a \o "/" \o b

\* A directory entry: dir is the directory below the root, stem+ext the name.
FileEntry(dir, stem, ext) == [dir |-> dir, stem |-> stem, ext |-> ext, isDir |-> FALSE]
\* A directory has a name like any other entry, extension included.
DirEntry(dir, stem, ext) == [dir |-> dir, stem |-> stem, ext |-> ext, isDir |-> TRUE]

\* d.Name() / filepath.Base(path)
Base(e) == e.stem \o e.ext
\* the path of the entry relative to the walked root
RelPath(e) == Join(e.dir, Base(e))
\* filepath.Ext(path)
Ext(e) == e.ext

\* The entries a tree is drawn from, in the lexical order in which
\* os.ReadDir and filepath.WalkDir return them.
Universe ==
  << FileEntry("", "a", ".mp4"),
     FileEntry("", "b", ".MOV"),
     FileEntry("", "c", ".txt"),
     DirEntry("", "clips", ".mp4"),
     FileEntry("", "d", ".mkv"),
     DirEntry("", "sub", ""),
     FileEntry("sub", "a", ".mp4") >>

RECURSIVE Pick(_, _)
Pick(i, S) ==
  IF i > Len(Universe) THEN <<>>
  ELSE (IF i \in S THEN <<Universe[i]>> ELSE <<>>) \o Pick(i + 1, S)

\* closed under parent: sub/a.mp4 needs sub
Trees ==
  { Pick(1, S) : S \in { T \in SUBSET (1 .. Len(Universe)) :
                           /\ Cardinality(T) <= MaxFiles
                           /\ (7 \in T => 6 \in T) } }

\* single-file inputs of transcribeFile
FileInputs ==
  { FileEntry("", "a", ".mp4"), FileEntry("clips", "a", ".mp4"),
    FileEntry("", "b", ".MOV"), FileEntry("", "c", ".txt") }

\* prior: the outputs of an earlier run on the same input are still at the
\* final destination when the command starts
Inputs ==
  { [kind |-> "dir", tree |-> tr, path |-> DirEntry("", "in", ""), prior |-> p] :
      tr \in Trees, p \in BOOLEAN }
  \cup { [kind |-> "file", tree |-> <<>>, path |-> f, prior |-> p] :
      f \in FileInputs, p \in BOOLEAN }

\* strings.ToLower on the extensions of the universe
ToLower(s) ==
  CASE s = ".MOV" -> ".mov"
    [] s = ".MP4" -> ".mp4"
    [] OTHER -> s

validVideoFormats == {".mp4", ".mov", ".mkv", ".webm", ".avi"}

\* slices.Contains(validVideoFormats, strings.ToLower(filepath.Ext(path)))
ValidExt(e) == ToLower(Ext(e)) \in validVideoFormats

\* os.ReadDir(inputDirPath): the entries directly under the root
ReadDir(tree) == SelectSeq(tree, LAMBDA e : e.dir = "")

\* filepath.WalkDir callback: directories return nil, other extensions return
\* nil, the rest is appended to validFiles
WalkDir(tree) == SelectSeq(tree, LAMBDA e : ~e.isDir /\ ValidExt(e))

----------------------------------------------------------------------------
VARIABLES
  variant,    \* generation of the orchestrator
  input,      \* the --input path: a directory tree or a single file
  cpc,        \* position of the command (main goroutine)
  ret,        \* "running", "nil", "error" (Action's return) or "panic"
  files,      \* files (main, mutex) / validFiles (seq)
  numOfVids,  \* M of "N of M"
  idx,        \* loop index over files
  tpc,        \* position of each per-video task
  pend,       \* the error a task is about to append: its stage and its text
  regErrs,    \* errs as read by a task's append
  regSucc,    \* success as read by a task
  success,    \* success counter
  errs,       \* failure list
  prefixN,    \* N of spinner.Prefix
  sharedErr,  \* transcribeDir's err variable, captured by the closures (main)
  mu,         \* holder of the mutex, 0 when free
  tmp,        \* workspace: "none", "exists", "removed"
  tmpFiles,   \* paths present in the workspace
  dest,       \* final destination: set of DestFile records
  printed,    \* error entries written by the final report
  summary,    \* the summary line and the numbers it shows
  finalMsg,   \* spinner.FinalMSG set (single-file mode)
  extFail,    \* per task: first stage whose call returned an error ("none")
  ran,        \* per task: stages invoked, in order
  setupErr,   \* the set-up check that failed ("none")
  call        \* a call of a pure function: its argument and its result

vars == << variant, input, cpc, ret, files, numOfVids, idx, tpc, pend, regErrs,
           regSucc, success, errs, prefixN, sharedErr, mu, tmp, tmpFiles, dest,
           printed, summary, finalMsg, extFail, ran, setupErr, call >>

Tasks == DOMAIN tpc

\* no summary line has been written
NoSummary == [written |-> FALSE, success |-> 0, failed |-> 0]

Terminal == {"done", "failed"}

\* files (main, mutex: os.ReadDir) or validFiles (seq: filepath.WalkDir)
Resolve(tree) == IF variant = "seq" THEN WalkDir(tree) ELSE ReadDir(tree)

\* no error is held by the task
NoErr == [stage |-> "none", wraps |-> {}]

\* the state of `call` while the command runs: no pure function is on trial
\* env: the outcomes of the external calls the function makes; payload: the
\* text returned by the transcription service; segs: transcript.Segments;
\* out: the string returned or written; res: the (Schema, error) returned
NoCall ==
  [fn |-> "none", t |-> 0, path |-> <<>>,
   env |-> [client |-> TRUE, upload |-> TRUE, generate |-> TRUE, write |-> TRUE],
   payload |-> [syntax |-> "ok", language |-> "absent",
                segments |-> [kind |-> "absent", items |-> <<>>]],
   segs |-> <<>>,
   done |-> FALSE, out |-> <<>>,
   res |-> [err |-> "none", calls |-> <<>>,
            schema |-> [Language |-> "zero", Segments |-> <<>>]]]

Running == ret = "running"

----------------------------------------------------------------------------
(* Artifact paths (relative to the workspace, resp. to the working directory) *)

\* the path handed to the task: filepath.Join(inputDirPath, name) / inputPath
FullPath(t) ==
  IF input.kind = "dir" THEN Join(Base(input.path), RelPath(files[t]))
  ELSE RelPath(files[t])

\* outputAudioPath
AudioPath(t) ==
  IF variant = "main" /\ input.kind = "file" THEN "audio.mp3"
  ELSE Base(files[t]) \o "_audio.mp3"

\* GenerateSrtFile(transcript, filename, tempPath): the subtitle file named
\* after the source's name without extension
SrtPathByName(t) == files[t].stem \o ".srt"

\* GenerateSrtFile's outputPath
SrtPath(t) ==
  IF variant = "main" THEN "subs.srt" ELSE SrtPathByName(t)

\* main.go and part_003 build the single file's destination as
\* "transcribed_" + inputPath, directory components included
PrefixesWholePath(e) ==
  variant \in {"main", "mutex"} /\ input.kind = "file" /\ e.dir # ""

\* the directory of finalVideoPath for the entry e: ./output (main,
\* directory mode), the prefixed first component of inputPath, or the
\* working directory
FinalDirOf(e) ==
  CASE variant = "main" /\ input.kind = "dir" -> "output"
    [] PrefixesWholePath(e) -> "transcribed_" \o e.dir
    [] OTHER -> ""

\* the file name of finalVideoPath for the entry e
FinalNameOf(e) ==
  IF PrefixesWholePath(e) THEN Base(e) ELSE "transcribed_" \o Base(e)

FinalDir(t) == FinalDirOf(files[t])
FinalName(t) == FinalNameOf(files[t])

\* finalVideoPath: where the Placing stage writes
FinalVideoPath(t) == Join(FinalDir(t), FinalName(t))

\* tempVideoPath: what the Burning stage writes in the workspace
TempVideoPath(t) ==
  IF variant = "main" THEN FinalVideoPath(t)
  ELSE "transcribed_" \o Base(files[t])

\* a file of the final destination: its path, the directory and the name the
\* path consists of, the task that wrote it (0: an earlier run) and whether
\* it is a complete output
DestFile(p, dir, name, t, st) ==
  [path |-> p, dir |-> dir, name |-> name, by |-> t, st |-> st]

\* a Placing stage that leaves a file already at the destination as it is
PutDest_NoOverwrite(d, p, t, st) ==
  IF \E r \in d : r.path = p THEN d
  ELSE d \cup { DestFile(p, FinalDir(t), FinalName(t), t, st) }

\* the file at path p of the final destination is (over)written by task t
PutDest(d, p, t, st) ==
  { r \in d : r.path # p } \cup { DestFile(p, FinalDir(t), FinalName(t), t, st) }

----------------------------------------------------------------------------
\* the entries an earlier run of the same command made outputs of: its tasks,
\* except the directories, which have no video to place
PriorEntries ==
  IF input.kind = "dir"
  THEN { e \in { Resolve(input.tree)[i] : i \in 1 .. Len(Resolve(input.tree)) } :
           ValidExt(e) /\ ~e.isDir }
  ELSE IF ValidExt(input.path) THEN { input.path } ELSE {}

\* the outputs that earlier run left at the final destination
PriorOutputs ==
  { DestFile(Join(FinalDirOf(e), FinalNameOf(e)), FinalDirOf(e), FinalNameOf(e),
             0, "complete") : e \in PriorEntries }

\* the command's own variables before the Action runs
InitCommand ==
  /\ ret = "running"
  /\ files = <<>>
  /\ numOfVids = 0
  /\ idx = 1
  /\ tpc = <<>>
  /\ pend = <<>>
  /\ regErrs = <<>>
  /\ regSucc = <<>>
  /\ success = 0
  /\ errs = <<>>
  /\ prefixN = 0
  /\ sharedErr = "nil"
  /\ mu = 0
  /\ tmp = "none"
  /\ tmpFiles = {}
  /\ printed = <<>>
  /\ summary = NoSummary
  /\ finalMsg = FALSE
  /\ extFail = <<>>
  /\ ran = <<>>
  /\ setupErr = "none"

Init ==
  /\ variant \in Variants
  /\ input \in Inputs
  /\ cpc = "start"
  /\ dest = (IF input.prior THEN PriorOutputs ELSE {})
  /\ call = NoCall
  /\ InitCommand

----------------------------------------------------------------------------
(* The command's Action *)

\* godotenv.Load() is called by main only
DotenvOutcomes == IF variant = "main" THEN BOOLEAN ELSE {TRUE}

\* the first of the Action's checks that the environment fails, in the order
\* of the code: exec.LookPath, godotenv.Load, GOOGLE_API_KEY, os.Stat
FirstFailed(lookPathOk, envOk, apiKeyOk, statOk) ==
  CASE ~lookPathOk -> "ffmpeg"
    [] lookPathOk /\ ~envOk -> "dotenv"
    [] lookPathOk /\ envOk /\ ~apiKeyOk -> "apikey"
    [] lookPathOk /\ envOk /\ apiKeyOk /\ ~statOk -> "stat"
    [] OTHER -> "none"

\* an Action that does not look at the API key
SetupOk_KeyUnchecked(lookPathOk, envOk, apiKeyOk, statOk) ==
  lookPathOk /\ envOk /\ statOk

\* none of the Action's early returns is taken
SetupOk(lookPathOk, envOk, apiKeyOk, statOk) ==
  lookPathOk /\ envOk /\ apiKeyOk /\ statOk

\* exec.LookPath, the API key, os.Stat, then the dispatch on info.IsDir()
MainAction ==
  /\ Running /\ cpc = "start"
  /\ \E lookPathOk \in BOOLEAN, envOk \in DotenvOutcomes,
        apiKeyOk \in BOOLEAN, statOk \in BOOLEAN :
       /\ setupErr' = FirstFailed(lookPathOk, envOk, apiKeyOk, statOk)
       /\ IF SetupOk(lookPathOk, envOk, apiKeyOk, statOk)
          THEN /\ cpc' = (IF input.kind = "dir" THEN "td_begin" ELSE "tf_begin")
               /\ ret' = ret
          ELSE /\ cpc' = "exit"
               /\ ret' = "error"
  /\ UNCHANGED << variant, input, call, files, numOfVids, idx, tpc, pend, regErrs,
                  regSucc, success, errs, prefixN, sharedErr, mu, tmp, tmpFiles,
                  dest, printed, summary, finalMsg, extFail, ran >>

----------------------------------------------------------------------------
(* transcribeDir: set-up *)

\* os.RemoveAll("./output") followed by os.Mkdir (main only)
ResetOutput(d) ==
  IF variant = "main" THEN { r \in d : r.dir # "output" } ELSE d

TD_Begin ==
  /\ Running /\ cpc = "td_begin"
  /\ \E readOk \in BOOLEAN, mkdirOk \in BOOLEAN, tmpOk \in BOOLEAN :
       LET fs == Resolve(input.tree)
           n  == Len(fs)
       IN
       IF ~readOk
       THEN /\ cpc' = "exit" /\ ret' = "error"
            /\ setupErr' = "traversal"
            /\ UNCHANGED << files, numOfVids, tpc, pend, regErrs, regSucc,
                            extFail, ran, tmp, dest >>
       ELSE IF variant = "main" /\ ~mkdirOk
       THEN /\ cpc' = "exit" /\ ret' = "error"
            /\ setupErr' = "mkdir"
            /\ dest' = ResetOutput(dest)
            /\ UNCHANGED << files, numOfVids, tpc, pend, regErrs, regSucc,
                            extFail, ran, tmp >>
       ELSE IF ~tmpOk
       THEN /\ cpc' = "exit" /\ ret' = "error"
            /\ setupErr' = "mkdtemp"
            /\ dest' = ResetOutput(dest)
            /\ UNCHANGED << files, numOfVids, tpc, pend, regErrs, regSucc,
                            extFail, ran, tmp >>
       ELSE /\ cpc' = "td_loop" /\ ret' = ret
            /\ setupErr' = setupErr
            /\ dest' = ResetOutput(dest)
            /\ files' = fs
            /\ numOfVids' = n
            /\ tmp' = "exists"
            /\ tpc' = [i \in 1 .. n |-> "pending"]
            /\ pend' = [i \in 1 .. n |-> NoErr]
            /\ regErrs' = [i \in 1 .. n |-> <<>>]
            /\ regSucc' = [i \in 1 .. n |-> 0]
            /\ extFail' = [i \in 1 .. n |-> "none"]
            /\ ran' = [i \in 1 .. n |-> <<>>]
  /\ UNCHANGED << variant, input, call, idx, success, errs, prefixN, sharedErr, mu,
                  tmpFiles, printed, summary, finalMsg >>

----------------------------------------------------------------------------
(* transcribeDir: the loop over files *)

\* wg.Go returns at once (main, mutex); the sequential loop body runs to its
\* continue / end before the next iteration starts (seq)
MayStart(i) ==
  IF variant = "seq" THEN \A j \in 1 .. (i - 1) : tpc[j] \in Terminal ELSE TRUE

\* `continue` on an entry whose extension is not a video format
TD_Skip ==
  /\ Running /\ cpc = "td_loop"
  /\ idx <= Len(files)
  /\ ~ValidExt(files[idx])
  /\ MayStart(idx)
  /\ idx' = idx + 1
  /\ UNCHANGED << variant, input, setupErr, call, cpc, ret, files, numOfVids, tpc, pend, regErrs,
                  regSucc, success, errs, prefixN, sharedErr, mu, tmp, tmpFiles,
                  dest, printed, summary, finalMsg, extFail, ran >>

\* wg.Go(func() {...}) / entering the loop body
TD_Go ==
  /\ Running /\ cpc = "td_loop"
  /\ idx <= Len(files)
  /\ ValidExt(files[idx])
  /\ MayStart(idx)
  /\ tpc' = [tpc EXCEPT ![idx] = "extract"]
  /\ idx' = idx + 1
  /\ UNCHANGED << variant, input, setupErr, call, cpc, ret, files, numOfVids, pend, regErrs,
                  regSucc, success, errs, prefixN, sharedErr, mu, tmp, tmpFiles,
                  dest, printed, summary, finalMsg, extFail, ran >>

----------------------------------------------------------------------------
(* The per-video task *)

InDir == Running /\ input.kind = "dir" /\ cpc = "td_loop"

\* where a task goes when a stage returned an error: main appends to errs at
\* once, mutex and seq take mu.Lock() first
FailPc == IF variant = "main" THEN "append_read" ELSE "lock_err"

\* where a task goes after the Placing stage succeeded: only mutex locks
SuccPc == IF variant = "mutex" THEN "lock_ok" ELSE "succ_read"

\* the first stage whose call returned an error is remembered
NoteFail(t, stage) ==
  IF extFail[t] = "none" THEN [extFail EXCEPT ![t] = stage] ELSE extFail

\* what the text of the error appended for a failed stage identifies:
\*   Extracting   "error while converting <fullPath> to audio format"
\*   Transcribing "error while transcribing video"
\*   Formatting   "error while saving srt file"
\*   Burning      "error while adding subtitles to original video"
\*   Placing      main, os.Open: "error while copying tmp video to root
\*                directory"; os.Create, io.Copy, os.Rename: the bare error
ErrWraps(stage, cause) ==
  CASE stage = "Extracting" -> {"stage", "source"}
    [] stage \in {"Transcribing", "Formatting", "Burning"} -> {"stage"}
    [] stage = "Placing" /\ cause = "open_fail" -> {"stage"}
    [] OTHER -> {}

\* a task that calls the transcription service again after an error
OnError_Retry(stage) ==
  IF stage = "Transcribing" THEN "transcribe" ELSE FailPc

\* `if err != nil { ...; return }` / `continue`: an error of any stage sends
\* the task to the failure report, never back to a stage
OnError(stage) == FailPc

\* the outcome of a stage whose error is held in a variable of the task
StageDone(t, stage, ok, next, cause) ==
  /\ ran' = [ran EXCEPT ![t] = Append(@, stage)]
  /\ IF ok
     THEN /\ tpc' = [tpc EXCEPT ![t] = next]
          /\ UNCHANGED << pend, extFail >>
     ELSE /\ tpc' = [tpc EXCEPT ![t] = OnError(stage)]
          /\ pend' = [pend EXCEPT ![t] = [stage |-> stage,
                                          wraps |-> ErrWraps(stage, cause)]]
          /\ extFail' = NoteFail(t, stage)

\* the results cmd.Run() can have in Extracting and in Burning: ffmpeg cannot
\* read a directory as its input
FfmpegOutcomes(t) == IF files[t].isDir THEN {FALSE} ELSE BOOLEAN

\* ffmpeg -y -i fullPath outputAudioPath. In main the result is assigned to
\* transcribeDir's own err (`err = cmd.Run()`), which every closure shares.
Extract(t) ==
  /\ InDir /\ tpc[t] = "extract"
  /\ \E ok \in FfmpegOutcomes(t) :
       /\ tmpFiles' = IF ok THEN tmpFiles \cup {AudioPath(t)} ELSE tmpFiles
       /\ IF variant = "main"
          THEN /\ sharedErr' = (IF ok THEN "nil" ELSE "err")
               /\ ran' = [ran EXCEPT ![t] = Append(@, "Extracting")]
               /\ extFail' = (IF ok THEN extFail ELSE NoteFail(t, "Extracting"))
               /\ tpc' = [tpc EXCEPT ![t] = "extract_chk"]
               /\ pend' = pend
          ELSE /\ sharedErr' = sharedErr
               /\ StageDone(t, "Extracting", ok, "transcribe", "ffmpeg")
  /\ UNCHANGED << variant, input, setupErr, call, cpc, ret, files, numOfVids, idx, regErrs,
                  regSucc, success, errs, prefixN, mu, tmp, dest, printed,
                  summary, finalMsg >>

\* main: `if err != nil` reads the shared err
ExtractCheck(t) ==
  /\ InDir /\ tpc[t] = "extract_chk"
  /\ tpc' = [tpc EXCEPT ![t] = IF sharedErr # "nil" THEN "extract_msg"
                                ELSE "transcribe"]
  /\ UNCHANGED << variant, input, setupErr, call, cpc, ret, files, numOfVids, idx, pend, regErrs,
                  regSucc, success, errs, prefixN, sharedErr, mu, tmp, tmpFiles,
                  dest, printed, summary, finalMsg, extFail, ran >>

\* main: err.Error() reads the shared err again; on a nil interface it panics
\* and the process dies with every goroutine
ExtractErrMsg(t) ==
  /\ InDir /\ tpc[t] = "extract_msg"
  /\ IF sharedErr = "nil"
     THEN /\ ret' = "panic"
          /\ UNCHANGED << tpc, pend >>
     ELSE /\ ret' = ret
          /\ tpc' = [tpc EXCEPT ![t] = FailPc]
          /\ pend' = [pend EXCEPT ![t] = [stage |-> "Extracting",
                                          wraps |-> ErrWraps("Extracting", "ffmpeg")]]
  /\ UNCHANGED << variant, input, setupErr, call, cpc, files, numOfVids, idx, regErrs, regSucc,
                  success, errs, prefixN, sharedErr, mu, tmp, tmpFiles, dest,
                  printed, summary, finalMsg, extFail, ran >>

\* TranscribeVideo(ctx, apiKey, c, outputAudioPath)
Transcribe(t) ==
  /\ InDir /\ tpc[t] = "transcribe"
  /\ \E ok \in BOOLEAN : StageDone(t, "Transcribing", ok, "format", "gemini")
  /\ UNCHANGED << variant, input, setupErr, call, cpc, ret, files, numOfVids, idx, regErrs,
                  regSucc, success, errs, prefixN, sharedErr, mu, tmp, tmpFiles,
                  dest, printed, summary, finalMsg >>

\* GenerateSrtFile: os.WriteFile of the subtitle text into the workspace
Format(t) ==
  /\ InDir /\ tpc[t] = "format"
  /\ \E ok \in BOOLEAN :
       /\ StageDone(t, "Formatting", ok, "burn", "write_fail")
       /\ tmpFiles' = IF ok THEN tmpFiles \cup {SrtPath(t)} ELSE tmpFiles
  /\ UNCHANGED << variant, input, setupErr, call, cpc, ret, files, numOfVids, idx, regErrs,
                  regSucc, success, errs, prefixN, sharedErr, mu, tmp, dest,
                  printed, summary, finalMsg >>

\* ffmpeg -y -i fullPath -vf subtitles=... tempVideoPath
Burn(t) ==
  /\ InDir /\ tpc[t] = "burn"
  /\ \E ok \in FfmpegOutcomes(t) :
       /\ StageDone(t, "Burning", ok, "place", "ffmpeg")
       /\ tmpFiles' = IF ok THEN tmpFiles \cup {TempVideoPath(t)} ELSE tmpFiles
  /\ UNCHANGED << variant, input, setupErr, call, cpc, ret, files, numOfVids, idx, regErrs,
                  regSucc, success, errs, prefixN, sharedErr, mu, tmp, dest,
                  printed, summary, finalMsg >>

\* main: os.Open, os.Create (truncates or creates the destination), io.Copy
PlaceCopyOutcomes == {"open_fail", "create_fail", "copy_fail", "ok"}

\* what os.Create + io.Copy leave at the destination
CopyResult(d, p, t, r) ==
  CASE r = "copy_fail" -> PutDest(d, p, t, "partial")
    [] r = "ok"        -> PutDest(d, p, t, "complete")
    [] OTHER           -> d

\* what os.Rename leaves at the destination
RenameResult(d, p, t, ok) == IF ok THEN PutDest(d, p, t, "complete") ELSE d

\* the Placing stage. main: os.Open(tempVideoPath), the first of the three
\* statements of the copy, each a step of its own among the sibling
\* goroutines; mutex, seq: os.Rename
Place(t) ==
  /\ InDir /\ tpc[t] = "place"
  /\ IF variant = "main"
     THEN \E ok \in BOOLEAN :
            /\ StageDone(t, "Placing", ok, "place_create", "open_fail")
            /\ UNCHANGED << dest, tmpFiles >>
     ELSE \E ok \in BOOLEAN :
            /\ StageDone(t, "Placing", ok, SuccPc, "rename_fail")
            /\ dest' = RenameResult(dest, FinalVideoPath(t), t, ok)
            /\ tmpFiles' = IF ok THEN tmpFiles \ {TempVideoPath(t)} ELSE tmpFiles
  /\ UNCHANGED << variant, input, setupErr, call, cpc, ret, files, numOfVids, idx, regErrs,
                  regSucc, success, errs, prefixN, sharedErr, mu, tmp, printed,
                  summary, finalMsg >>

\* `errs = append(errs, err); return` after a failed os.Create or io.Copy:
\* the bare error
PlaceFailed(t, cause) ==
  /\ tpc' = [tpc EXCEPT ![t] = OnError("Placing")]
  /\ pend' = [pend EXCEPT ![t] = [stage |-> "Placing",
                                  wraps |-> ErrWraps("Placing", cause)]]
  /\ extFail' = NoteFail(t, "Placing")

\* main: out, err := os.Create(finalVideoPath) creates or truncates the file
\* at the final destination
PlaceCreate(t) ==
  /\ InDir /\ variant = "main" /\ tpc[t] = "place_create"
  /\ \E ok \in BOOLEAN :
       IF ok
       THEN /\ dest' = PutDest(dest, FinalVideoPath(t), t, "partial")
            /\ tpc' = [tpc EXCEPT ![t] = "place_copy"]
            /\ UNCHANGED << pend, extFail >>
       ELSE /\ dest' = dest
            /\ PlaceFailed(t, "create_fail")
  /\ UNCHANGED << variant, input, setupErr, call, cpc, ret, files, numOfVids, idx, regErrs,
                  regSucc, success, errs, prefixN, sharedErr, mu, tmp, tmpFiles,
                  printed, summary, finalMsg, ran >>

\* main: _, err = io.Copy(out, in) fills the file or stops part-way
PlaceCopy(t) ==
  /\ InDir /\ variant = "main" /\ tpc[t] = "place_copy"
  /\ \E ok \in BOOLEAN :
       IF ok
       THEN /\ dest' = PutDest(dest, FinalVideoPath(t), t, "complete")
            /\ tpc' = [tpc EXCEPT ![t] = SuccPc]
            /\ UNCHANGED << pend, extFail >>
       ELSE /\ dest' = PutDest(dest, FinalVideoPath(t), t, "partial")
            /\ PlaceFailed(t, "copy_fail")
  /\ UNCHANGED << variant, input, setupErr, call, cpc, ret, files, numOfVids, idx, regErrs,
                  regSucc, success, errs, prefixN, sharedErr, mu, tmp, tmpFiles,
                  printed, summary, finalMsg, ran >>

\* sync.RWMutex: Lock blocks while another task holds it
MuFree == mu = 0

\* mu.Lock()
Lock(t) ==
  /\ InDir /\ tpc[t] \in {"lock_err", "lock_ok"}
  /\ MuFree
  /\ mu' = t
  /\ tpc' = [tpc EXCEPT ![t] = IF tpc[t] = "lock_err" THEN "append_read"
                                ELSE "succ_read"]
  /\ UNCHANGED << variant, input, setupErr, call, cpc, ret, files, numOfVids, idx, pend, regErrs,
                  regSucc, success, errs, prefixN, sharedErr, tmp, tmpFiles,
                  dest, printed, summary, finalMsg, extFail, ran >>

\* errs = append(errs, e): the slice is read ...
AppendRead(t) ==
  /\ InDir /\ tpc[t] = "append_read"
  /\ regErrs' = [regErrs EXCEPT ![t] = errs]
  /\ tpc' = [tpc EXCEPT ![t] = "append_write"]
  /\ UNCHANGED << variant, input, setupErr, call, cpc, ret, files, numOfVids, idx, pend,
                  regSucc, success, errs, prefixN, sharedErr, mu, tmp, tmpFiles,
                  dest, printed, summary, finalMsg, extFail, ran >>

\* what a failed task does after its append: return (main), mu.Unlock() first
\* (mutex, seq)
AfterAppendPc == IF variant = "main" THEN "failed" ELSE "unlock_err"

\* ... and the extended slice is stored; then `return` / `continue`
AppendWrite(t) ==
  /\ InDir /\ tpc[t] = "append_write"
  /\ errs' = Append(regErrs[t], [task |-> t, stage |-> pend[t].stage,
                                  wraps |-> pend[t].wraps])
  /\ regErrs' = [regErrs EXCEPT ![t] = <<>>]
  /\ tpc' = [tpc EXCEPT ![t] = AfterAppendPc]
  /\ UNCHANGED << variant, input, setupErr, call, cpc, ret, files, numOfVids, idx, pend,
                  regSucc, success, prefixN, sharedErr, mu, tmp, tmpFiles,
                  dest, printed, summary, finalMsg, extFail, ran >>

\* mu.Unlock()
Unlock(t) ==
  /\ InDir /\ tpc[t] \in {"unlock_err", "unlock_ok"}
  /\ mu' = 0
  /\ tpc' = [tpc EXCEPT ![t] = IF tpc[t] = "unlock_err" THEN "failed" ELSE "done"]
  /\ UNCHANGED << variant, input, setupErr, call, cpc, ret, files, numOfVids, idx, pend, regErrs,
                  regSucc, success, errs, prefixN, sharedErr, tmp, tmpFiles,
                  dest, printed, summary, finalMsg, extFail, ran >>

\* success++ : the counter is read ...
SuccRead(t) ==
  /\ InDir /\ tpc[t] = "succ_read"
  /\ regSucc' = [regSucc EXCEPT ![t] = success]
  /\ tpc' = [tpc EXCEPT ![t] = "succ_write"]
  /\ UNCHANGED << variant, input, setupErr, call, cpc, ret, files, numOfVids, idx, pend, regErrs,
                  success, errs, prefixN, sharedErr, mu, tmp, tmpFiles, dest,
                  printed, summary, finalMsg, extFail, ran >>

\* ... and stored incremented
SuccWrite(t) ==
  /\ InDir /\ tpc[t] = "succ_write"
  /\ success' = regSucc[t] + 1
  /\ tpc' = [tpc EXCEPT ![t] = "pfx_read"]
  /\ UNCHANGED << variant, input, setupErr, call, cpc, ret, files, numOfVids, idx, pend, regErrs,
                  regSucc, errs, prefixN, sharedErr, mu, tmp, tmpFiles, dest,
                  printed, summary, finalMsg, extFail, ran >>

\* fmt.Sprintf("... %v of %v... ", success, numOfVids) reads the counter ...
PrefixRead(t) ==
  /\ InDir /\ tpc[t] = "pfx_read"
  /\ regSucc' = [regSucc EXCEPT ![t] = success]
  /\ tpc' = [tpc EXCEPT ![t] = "pfx_write"]
  /\ UNCHANGED << variant, input, setupErr, call, cpc, ret, files, numOfVids, idx, pend, regErrs,
                  success, errs, prefixN, sharedErr, mu, tmp, tmpFiles, dest,
                  printed, summary, finalMsg, extFail, ran >>

\* what a successful task does after the prefix: mu.Unlock() (mutex) or the
\* end of the closure / loop body (main, seq)
AfterPrefixPc == IF variant = "mutex" THEN "unlock_ok" ELSE "done"

\* ... and spinner.Prefix is assigned
PrefixWrite(t) ==
  /\ InDir /\ tpc[t] = "pfx_write"
  /\ prefixN' = regSucc[t]
  /\ regSucc' = [regSucc EXCEPT ![t] = 0]
  /\ tpc' = [tpc EXCEPT ![t] = AfterPrefixPc]
  /\ UNCHANGED << variant, input, setupErr, call, cpc, ret, files, numOfVids, idx, pend, regErrs,
                  success, errs, sharedErr, mu, tmp, tmpFiles, dest, printed,
                  summary, finalMsg, extFail, ran >>

----------------------------------------------------------------------------
(* transcribeDir: join and report *)

\* a join that gives up as soon as one task has failed
Joined_FailFast ==
  \/ \A t \in Tasks : tpc[t] \in Terminal \cup {"pending"}
  \/ \E t \in Tasks : tpc[t] = "failed"

\* a transcribeDir that returns without waiting for its tasks
Joined_NoWait == TRUE

\* wg.Wait() / the end of the sequential loop
Joined == \A t \in Tasks : tpc[t] \in Terminal \cup {"pending"}

TD_Wait ==
  /\ Running /\ cpc = "td_loop"
  /\ idx > Len(files)
  /\ Joined
  /\ cpc' = "td_report"
  /\ UNCHANGED << variant, input, setupErr, call, ret, files, numOfVids, idx, tpc, pend, regErrs,
                  regSucc, success, errs, prefixN, sharedErr, mu, tmp, tmpFiles,
                  dest, printed, summary, finalMsg, extFail, ran >>

\* a report that treats a batch without a success as an error
ReportRet_ErrorOnNothing(es) == IF success = 0 THEN "error" ELSE "nil"

\* main returns errors.New("there were errors") when errs is not empty and
\* writes its summary only otherwise; mutex and seq always write the summary
\* and return nil
ReportRet(es) == IF variant = "main" /\ Len(es) > 0 THEN "error" ELSE "nil"

ReportSummary(n, es) ==
  IF variant = "main" /\ Len(es) > 0 THEN NoSummary
  ELSE [written |-> TRUE, success |-> n, failed |-> Len(es)]

\* a return path on which the deferred removal is missing
RemoveAllTmp_Missing == "exists"

\* defer os.RemoveAll(tempDirPath)
RemoveAllTmp == "removed"

\* spinner.Stop(), the loop over errs, the summary line, return (and the
\* deferred removal of the workspace)
TD_Report ==
  /\ Running /\ cpc = "td_report"
  /\ printed' = errs
  /\ summary' = ReportSummary(success, errs)
  /\ ret' = ReportRet(errs)
  /\ tmp' = RemoveAllTmp
  /\ tmpFiles' = IF tmp' = "removed" THEN {} ELSE tmpFiles
  /\ cpc' = "exit"
  /\ UNCHANGED << variant, input, setupErr, call, files, numOfVids, idx, tpc, pend, regErrs,
                  regSucc, success, errs, prefixN, sharedErr, mu, dest, finalMsg,
                  extFail, ran >>

----------------------------------------------------------------------------
(* transcribeFile *)

\* the extension check and os.MkdirTemp
TF_Begin ==
  /\ Running /\ cpc = "tf_begin"
  /\ \E tmpOk \in BOOLEAN :
       IF ~ValidExt(input.path) \/ ~tmpOk
       THEN /\ cpc' = "exit" /\ ret' = "error"
            /\ setupErr' = (IF ~ValidExt(input.path) THEN "ext" ELSE "mkdtemp")
            /\ UNCHANGED << files, tpc, pend, regErrs, regSucc, extFail, ran, tmp >>
       ELSE /\ cpc' = "tf_run" /\ ret' = ret
            /\ setupErr' = setupErr
            /\ files' = << input.path >>
            /\ tmp' = "exists"
            /\ tpc' = << "extract" >>
            /\ pend' = << NoErr >>
            /\ regErrs' = << <<>> >>
            /\ regSucc' = << 0 >>
            /\ extFail' = << "none" >>
            /\ ran' = << <<>> >>
  /\ UNCHANGED << variant, input, call, numOfVids, idx, success, errs, prefixN,
                  sharedErr, mu, tmpFiles, dest, printed, summary, finalMsg >>

InFile == Running /\ input.kind = "file" /\ cpc = "tf_run"

\* a transcribeFile that returns nil whatever the stage returned
TF_Return_Swallowed(ok) == "nil"

\* what transcribeFile returns, and the Action after it: `return err` when a
\* stage returned an error, `return nil` after the last stage
TF_Return(ok) == IF ok THEN "nil" ELSE "error"

\* a stage of transcribeFile: on an error `return err` (the deferred
\* os.RemoveAll runs), otherwise the next stage; after the last stage
\* spinner.FinalMSG is set and nil is returned
TF_StageDone(stage, ok, next) ==
  /\ ran' = [ran EXCEPT ![1] = Append(@, stage)]
  /\ IF ~ok
     THEN /\ tpc' = [tpc EXCEPT ![1] = "failed"]
          /\ extFail' = NoteFail(1, stage)
          /\ ret' = TF_Return(FALSE)
          /\ cpc' = "exit"
          /\ tmp' = RemoveAllTmp
          /\ finalMsg' = finalMsg
     ELSE IF next = "done"
     THEN /\ tpc' = [tpc EXCEPT ![1] = "done"]
          /\ extFail' = extFail
          /\ ret' = TF_Return(TRUE)
          /\ cpc' = "exit"
          /\ tmp' = RemoveAllTmp
          /\ finalMsg' = TRUE
     ELSE /\ tpc' = [tpc EXCEPT ![1] = next]
          /\ UNCHANGED << extFail, ret, cpc, tmp, finalMsg >>

\* the workspace content after a stage that wrote `written` and removed `gone`
TF_Files(written, gone) ==
  IF tmp' = "removed" THEN {} ELSE (tmpFiles \cup written) \ gone

TF_Extract ==
  /\ InFile /\ tpc[1] = "extract"
  /\ \E ok \in BOOLEAN :
       /\ TF_StageDone("Extracting", ok, "transcribe")
       /\ tmpFiles' = TF_Files(IF ok THEN {AudioPath(1)} ELSE {}, {})
  /\ UNCHANGED << variant, input, setupErr, call, files, numOfVids, idx, pend, regErrs, regSucc,
                  success, errs, prefixN, sharedErr, mu, dest, printed, summary >>

TF_Transcribe ==
  /\ InFile /\ tpc[1] = "transcribe"
  /\ \E ok \in BOOLEAN :
       /\ TF_StageDone("Transcribing", ok, "format")
       /\ tmpFiles' = TF_Files({}, {})
  /\ UNCHANGED << variant, input, setupErr, call, files, numOfVids, idx, pend, regErrs, regSucc,
                  success, errs, prefixN, sharedErr, mu, dest, printed, summary >>

TF_Format ==
  /\ InFile /\ tpc[1] = "format"
  /\ \E ok \in BOOLEAN :
       /\ TF_StageDone("Formatting", ok, "burn")
       /\ tmpFiles' = TF_Files(IF ok THEN {SrtPath(1)} ELSE {}, {})
  /\ UNCHANGED << variant, input, setupErr, call, files, numOfVids, idx, pend, regErrs, regSucc,
                  success, errs, prefixN, sharedErr, mu, dest, printed, summary >>

TF_Burn ==
  /\ InFile /\ tpc[1] = "burn"
  /\ \E ok \in BOOLEAN :
       /\ TF_StageDone("Burning", ok, "place")
       /\ tmpFiles' = TF_Files(IF ok THEN {TempVideoPath(1)} ELSE {}, {})
  /\ UNCHANGED << variant, input, setupErr, call, files, numOfVids, idx, pend, regErrs, regSucc,
                  success, errs, prefixN, sharedErr, mu, dest, printed, summary >>

TF_Place ==
  /\ InFile /\ tpc[1] = "place"
  /\ IF variant = "main"
     THEN \E r \in PlaceCopyOutcomes :
            /\ TF_StageDone("Placing", r = "ok", "done")
            /\ dest' = CopyResult(dest, FinalVideoPath(1), 1, r)
            /\ tmpFiles' = TF_Files({}, {})
     ELSE \E ok \in BOOLEAN :
            /\ TF_StageDone("Placing", ok, "done")
            /\ dest' = RenameResult(dest, FinalVideoPath(1), 1, ok)
            /\ tmpFiles' = TF_Files({}, IF ok THEN {TempVideoPath(1)} ELSE {})
  /\ UNCHANGED << variant, input, setupErr, call, files, numOfVids, idx, pend, regErrs, regSucc,
                  success, errs, prefixN, sharedErr, mu, printed, summary >>

----------------------------------------------------------------------------
Next ==
  \/ MainAction
  \/ TD_Begin
  \/ TD_Skip
  \/ TD_Go
  \/ \E t \in Tasks : Extract(t)
  \/ \E t \in Tasks : ExtractCheck(t)
  \/ \E t \in Tasks : ExtractErrMsg(t)
  \/ \E t \in Tasks : Transcribe(t)
  \/ \E t \in Tasks : Format(t)
  \/ \E t \in Tasks : Burn(t)
  \/ \E t \in Tasks : Place(t)
  \/ \E t \in Tasks : PlaceCreate(t)
  \/ \E t \in Tasks : PlaceCopy(t)
  \/ \E t \in Tasks : Lock(t)
  \/ \E t \in Tasks : AppendRead(t)
  \/ \E t \in Tasks : AppendWrite(t)
  \/ \E t \in Tasks : Unlock(t)
  \/ \E t \in Tasks : SuccRead(t)
  \/ \E t \in Tasks : SuccWrite(t)
  \/ \E t \in Tasks : PrefixRead(t)
  \/ \E t \in Tasks : PrefixWrite(t)
  \/ TD_Wait
  \/ TD_Report
  \/ TF_Begin
  \/ TF_Extract
  \/ TF_Transcribe
  \/ TF_Format
  \/ TF_Burn
  \/ TF_Place

Spec == Init /\ [][Next]_vars

\* every external call returns and the scheduler runs every runnable
\* goroutine: a step that stays possible is eventually taken
SpecFair == Spec /\ WF_vars(Next)

----------------------------------------------------------------------------
(* The pure functions: getTimestamp (srt.go) and the escaping of the subtitle
   path in ApplySubtitles (part_000). Strings are sequences of characters; a
   time is a whole number of milliseconds. *)

Digits == << "0", "1", "2", "3", "4", "5", "6", "7", "8", "9" >>

\* the decimal digits of n >= 0
RECURSIVE Itoa(_)
Itoa(n) ==
  IF n < 10 THEN << Digits[n + 1] >>
  ELSE Itoa(n \div 10) \o << Digits[(n % 10) + 1] >>

RECURSIVE ZeroPad(_, _)
ZeroPad(s, w) == IF Len(s) >= w THEN s ELSE ZeroPad(<< "0" >> \o s, w)

\* fmt.Sprintf("%0wd", n) for n >= 0: at least w digits, zero-padded, never
\* truncated
Sprintf0d(w, n) == ZeroPad(Itoa(n), w)

\* floor(log2(n)) for n >= 1
RECURSIVE Log2(_)
Log2(n) == IF n < 2 THEN 0 ELSE 1 + Log2(n \div 2)

RECURSIVE Pow2(_)
Pow2(k) == IF k = 0 THEN 1 ELSE 2 * Pow2(k - 1)

RECURSIVE Pow2Mod1000(_)
Pow2Mod1000(k) == IF k = 0 THEN 1 ELSE (2 * Pow2Mod1000(k - 1)) % 1000

\* float64 arithmetic of (time - float64(int(time))) * 1000 for the time
\* ms/1000: the double nearest to ms/1000 has 52 - e binary places (e the
\* exponent of the whole seconds); when it lies below ms/1000 by r/1000 of
\* its last place and that deficit exceeds half a last place of the product,
\* the product is the double just below the whole number of milliseconds and
\* int() truncates it to one less
FracLoss(ms) ==
  LET whole == ms \div 1000
      m     == ms % 1000
  IN  IF whole = 0 \/ m = 0 THEN FALSE
      ELSE LET e  == Log2(whole)
               r  == (m * Pow2Mod1000(52 - e)) % 1000
               ep == IF Pow2(Log2(m)) = m THEN Log2(m) - 1 ELSE Log2(m)
               x  == ep - e - 1
           IN  r # 0 /\ r < 500 /\ (x < 0 \/ r > Pow2(x))

\* int((time - float64(int(time))) * 1000)
FracMillis(ms) == (ms % 1000) - (IF FracLoss(ms) THEN 1 ELSE 0)

\* getTimestamp(time float64) string
getTimestamp(time) ==
  LET hour == Sprintf0d(2, time \div 3600000)
      min  == Sprintf0d(2, time \div 60000)
      sec  == Sprintf0d(2, time \div 1000)
      ms   == Sprintf0d(3, FracMillis(time))
  IN  hour \o << ":" >> \o min \o << ":" >> \o sec \o << "," >> \o ms

\* strings.ReplaceAll(s, old, new) for a one-character old
RECURSIVE ReplaceAll(_, _, _)
ReplaceAll(s, old, new) ==
  IF s = <<>> THEN <<>>
  ELSE (IF Head(s) = old THEN new ELSE << Head(s) >>)
         \o ReplaceAll(Tail(s), old, new)

\* the two replacements in the other order
Escaped_ColonFirst(strFilePath) ==
  ReplaceAll(ReplaceAll(strFilePath, ":", << "\\", ":" >>),
             "\\", << "\\", "\\" >>)

\* escaped := strings.ReplaceAll(strFilePath, `\`, `\\`)
\* escaped = strings.ReplaceAll(escaped, ":", "\\:")
Escaped(strFilePath) ==
  ReplaceAll(ReplaceAll(strFilePath, "\\", << "\\", "\\" >>),
             ":", << "\\", ":" >>)

\* Schema{}: the zero value
ZeroSchema == [Language |-> "zero", Segments |-> <<>>]

\* how a field of the payload stands to the Go type it is decoded into: a
\* value of that type, no such key, or a value of another JSON type
FieldStates == {"ok", "absent", "mistyped"}

\* json.Unmarshal returns an error for text that is not JSON and for a value
\* whose JSON type does not fit the Go field; a missing key is no error
UnmarshalFails(p) ==
  \/ p.syntax = "bad"
  \/ p.language = "mistyped"
  \/ p.segments.kind = "mistyped"
  \/ \E i \in 1 .. Len(p.segments.items) :
       \/ p.segments.items[i].start = "mistyped"
       \/ p.segments.items[i].end = "mistyped"
       \/ p.segments.items[i].text = "mistyped"

\* a decoded field: the value of the payload, or the zero value of the type
Decoded(f) == IF f = "ok" THEN "set" ELSE "zero"

\* json.Unmarshal into Schema: missing keys leave the zero value
Unmarshal(p) ==
  [Language |-> Decoded(p.language),
   Segments |-> [i \in 1 .. Len(p.segments.items) |->
                   [Start |-> Decoded(p.segments.items[i].start),
                    End   |-> Decoded(p.segments.items[i].end),
                    Text  |-> Decoded(p.segments.items[i].text)]]]

\* TranscribeVideo: genai.NewClient, Files.UploadFromPath,
\* Models.GenerateContent, json.Unmarshal; each error is returned at once
TranscribeVideo(env, p) ==
  IF ~env.client
  THEN [err |-> "client", calls |-> << "NewClient" >>, schema |-> ZeroSchema]
  ELSE IF ~env.upload
  THEN [err |-> "upload", calls |-> << "NewClient", "UploadFromPath" >>,
        schema |-> ZeroSchema]
  ELSE IF ~env.generate
  THEN [err |-> "generate",
        calls |-> << "NewClient", "UploadFromPath", "GenerateContent" >>,
        schema |-> ZeroSchema]
  ELSE IF UnmarshalFails(p)
  THEN [err |-> "unmarshal",
        calls |-> << "NewClient", "UploadFromPath", "GenerateContent",
                     "Unmarshal" >>,
        schema |-> ZeroSchema]
  ELSE [err |-> "nil",
        calls |-> << "NewClient", "UploadFromPath", "GenerateContent",
                     "Unmarshal" >>,
        schema |-> Unmarshal(p)]

\* the characters one iteration of GenerateSrtFile's loop writes for the
\* segment v at index i (0-based): num + "\n", "<start> --> <end>\n",
\* "- " + v.Text + "\n"
Cue(i, v) ==
  Itoa(i + 1) \o << "\n" >>
  \o getTimestamp(v.start) \o << " ", "-", "-", ">", " " >>
  \o getTimestamp(v.end) \o << "\n" >>
  \o << "-", " " >> \o v.text \o << "\n" >>

\* sb.String() after the loop over the segments from index i on
RECURSIVE SrtFrom(_, _)
SrtFrom(i, segments) ==
  IF i >= Len(segments) THEN <<>>
  ELSE Cue(i, segments[i + 1]) \o SrtFrom(i + 1, segments)

\* the segment with the least start among segments[k..], ties to the first
RECURSIVE MinFrom(_, _)
MinFrom(segments, k) ==
  IF k = Len(segments) THEN k
  ELSE LET m == MinFrom(segments, k + 1)
       IN  IF segments[k].start <= segments[m].start THEN k ELSE m

RECURSIVE SortedByStart(_)
SortedByStart(segments) ==
  IF Len(segments) <= 1 THEN segments
  ELSE LET m == MinFrom(segments, 1)
       IN  << segments[m] >>
             \o SortedByStart([i \in 1 .. Len(segments) - 1 |->
                                 IF i < m THEN segments[i] ELSE segments[i + 1]])

\* a formatter that orders the cues by start time
GenerateSrtFile_Sorted(segments) == SrtFrom(0, SortedByStart(segments))

\* GenerateSrtFile: the text handed to os.WriteFile
GenerateSrtFile(segments) == SrtFrom(0, segments)

\* the times the functions are tried on: a grid of TimeStep milliseconds and
\* the landmarks around the minute, the hour and the hundredth hour
TimeStep == 997
MaxTimeK == 110

TimesMs ==
  { k * TimeStep : k \in 0 .. MaxTimeK }
  \cup { 400, 59999, 60000, 186400, 3599999, 3600000, 3661999, 360000000 }

\* the paths the escaping is tried on: every string over PathAlphabet of at
\* most MaxPathLen characters, a Windows path and a Unix path
MaxPathLen == 3
PathAlphabet == { "C", ":", "\\", "a" }

WindowsPath ==
  << "C", ":", "\\", "c", "l", "i", "p", "s", "\\", "a", ".", "s", "r", "t" >>

UnixPath == << "/", "t", "m", "p", "/", "a", ".", "s", "r", "t" >>

Paths ==
  UNION { [1 .. k -> PathAlphabet] : k \in 0 .. MaxPathLen }
  \cup { WindowsPath, UnixPath }

\* the payloads TranscribeVideo is tried on: text that is not JSON, and the
\* objects whose language and segments, and whose segments' fields, are
\* present, absent or of another type; at most MaxSegments segments
MaxSegments == 2

SegmentShapes == [start : FieldStates, end : FieldStates, text : FieldStates]

Payloads ==
  { [syntax |-> "bad", language |-> "ok",
     segments |-> [kind |-> "array", items |-> <<>>]] }
  \cup { [syntax |-> "ok", language |-> l, segments |-> [kind |-> k, items |-> <<>>]] :
           l \in FieldStates, k \in {"absent", "mistyped"} }
  \cup { [syntax |-> "ok", language |-> l, segments |-> [kind |-> "array", items |-> it]] :
           l \in FieldStates,
           it \in UNION { [1 .. n -> SegmentShapes] : n \in 0 .. MaxSegments } }

\* a payload that fits the schema
GoodPayload ==
  [syntax |-> "ok", language |-> "ok",
   segments |-> [kind |-> "array",
                 items |-> << [start |-> "ok", end |-> "ok", text |-> "ok"] >>]]

\* the failures of the calls TranscribeVideo makes
FailingEnvs ==
  { [NoCall.env EXCEPT !.client = FALSE],
    [NoCall.env EXCEPT !.upload = FALSE],
    [NoCall.env EXCEPT !.generate = FALSE] }

\* the transcripts GenerateSrtFile is tried on: at most MaxCues segments, in
\* any order of their start times
MaxCues == 2

Segments ==
  [start : {0, 2500}, end : {1500, 61000},
   text : { << "h", "i" >>, << "y", "o", "!" >> }]

Transcripts == UNION { [1 .. n -> Segments] : n \in 0 .. MaxCues }

Calls ==
  { [NoCall EXCEPT !.fn = "getTimestamp", !.t = t] : t \in TimesMs }
  \cup { [NoCall EXCEPT !.fn = "Escaped", !.path = p] : p \in Paths }
  \cup { [NoCall EXCEPT !.fn = "TranscribeVideo", !.payload = p] : p \in Payloads }
  \cup { [NoCall EXCEPT !.fn = "TranscribeVideo", !.payload = GoodPayload,
                        !.env = e] : e \in FailingEnvs }
  \cup { [NoCall EXCEPT !.fn = "GenerateSrtFile", !.segs = tr, !.env.write = w] :
           tr \in Transcripts, w \in BOOLEAN }

InitPure ==
  /\ variant = "seq"
  /\ input = [kind |-> "file", tree |-> <<>>, path |-> FileEntry("", "a", ".mp4"),
              prior |-> FALSE]
  /\ cpc = "pure"
  /\ dest = {}
  /\ call \in Calls
  /\ InitCommand

CallGetTimestamp ==
  /\ cpc = "pure" /\ call.fn = "getTimestamp" /\ ~call.done
  /\ call' = [call EXCEPT !.done = TRUE, !.out = getTimestamp(call.t)]
  /\ UNCHANGED << variant, input, cpc, ret, files, numOfVids, idx, tpc, pend,
                  regErrs, regSucc, success, errs, prefixN, sharedErr, mu, tmp,
                  tmpFiles, dest, printed, summary, finalMsg, extFail, ran,
                  setupErr >>

CallEscaped ==
  /\ cpc = "pure" /\ call.fn = "Escaped" /\ ~call.done
  /\ call' = [call EXCEPT !.done = TRUE, !.out = Escaped(call.path)]
  /\ UNCHANGED << variant, input, cpc, ret, files, numOfVids, idx, tpc, pend,
                  regErrs, regSucc, success, errs, prefixN, sharedErr, mu, tmp,
                  tmpFiles, dest, printed, summary, finalMsg, extFail, ran,
                  setupErr >>

CallTranscribeVideo ==
  /\ cpc = "pure" /\ call.fn = "TranscribeVideo" /\ ~call.done
  /\ call' = [call EXCEPT !.done = TRUE,
                          !.res = TranscribeVideo(call.env, call.payload)]
  /\ UNCHANGED << variant, input, cpc, ret, files, numOfVids, idx, tpc, pend,
                  regErrs, regSucc, success, errs, prefixN, sharedErr, mu, tmp,
                  tmpFiles, dest, printed, summary, finalMsg, extFail, ran,
                  setupErr >>

\* GenerateSrtFile: the text is built and os.WriteFile stores it or fails
CallGenerateSrtFile ==
  /\ cpc = "pure" /\ call.fn = "GenerateSrtFile" /\ ~call.done
  /\ call' = [call EXCEPT
                !.done = TRUE,
                !.out = IF call.env.write THEN GenerateSrtFile(call.segs) ELSE <<>>,
                !.res.err = IF call.env.write THEN "nil" ELSE "write"]
  /\ UNCHANGED << variant, input, cpc, ret, files, numOfVids, idx, tpc, pend,
                  regErrs, regSucc, success, errs, prefixN, sharedErr, mu, tmp,
                  tmpFiles, dest, printed, summary, finalMsg, extFail, ran,
                  setupErr >>

NextPure ==
  \/ CallGetTimestamp
  \/ CallEscaped
  \/ CallTranscribeVideo
  \/ CallGenerateSrtFile

SpecPure == InitPure /\ [][NextPure]_vars

----------------------------------------------------------------------------
(* Vocabulary of the properties *)

\* the resolved video paths: the entries that become tasks
Resolved == { t \in Tasks : ValidExt(files[t]) }

\* transcribeDir has passed the join
AfterJoin ==
  /\ input.kind = "dir"
  /\ \/ cpc = "td_report"
     \/ cpc = "exit" /\ tmp = "removed"

\* transcribeDir has returned after its set-up succeeded
DirReturned == input.kind = "dir" /\ cpc = "exit" /\ tmp = "removed"

\* the failure entries a task owns
EntriesOf(es, t) == { i \in 1 .. Len(es) : es[i].task = t }

\* s is an initial segment of the stage order
IsStagePrefix(s) ==
  /\ Len(s) <= Len(Stages)
  /\ \A i \in 1 .. Len(s) : s[i] = Stages[i]

Synchronised == variant \in {"mutex", "seq"}

----------------------------------------------------------------------------
(* C1: once all tasks of transcribeDir have joined, the success count plus
   the number of failure entries equals the number of resolved video paths. *)
C1_CountsSum ==
  AfterJoin => success + Len(errs) = Cardinality(Resolved)

\* the same sum in the generations that serialise the updates (part_003,
\* part_001)
C1_CountsSum_Synchronised ==
  (AfterJoin /\ Synchronised) => success + Len(errs) = Cardinality(Resolved)

(* C2: in part_003 and part_001 a task's outcome depends on its own stages
   only: after the join every task none of whose calls failed is Done, every
   other task is Failed, the success count is the number of the former and
   the failure list holds exactly one entry per failed task, naming the stage
   that failed. *)
C2_Isolation ==
  (AfterJoin /\ Synchronised) =>
    /\ \A t \in Resolved :
         /\ extFail[t] = "none" => tpc[t] = "done"
         /\ extFail[t] # "none" => tpc[t] = "failed"
    /\ success = Cardinality({ t \in Resolved : extFail[t] = "none" })
    /\ Len(errs) = Cardinality({ t \in Resolved : extFail[t] # "none" })
    /\ \A i \in 1 .. Len(errs) :
         /\ errs[i].task \in Resolved
         /\ errs[i].stage = extFail[errs[i].task]

\* the 3-task batch in which only task 2's Transcription fails
C2_Witness ==
  /\ AfterJoin /\ variant = "mutex"
  /\ Cardinality(Resolved) = 3
  /\ extFail = << "none", "Transcribing", "none" >>
  /\ tpc = << "done", "failed", "done" >>
  /\ success = 2
  /\ errs = << [task |-> 2, stage |-> "Transcribing", wraps |-> {"stage"}] >>

(* C3: every task of transcribeDir reports exactly once: after the join each
   resolved task is Done or Failed, the success counter counts the Done
   tasks, a Failed task owns exactly one failure entry and a Done task none,
   and once transcribeDir has returned every entry was written by the report. *)
C3_ReportsOnce ==
  AfterJoin =>
    /\ \A t \in Resolved :
         /\ tpc[t] \in Terminal
         /\ tpc[t] = "failed" => Cardinality(EntriesOf(errs, t)) = 1
         /\ tpc[t] = "done" => EntriesOf(errs, t) = {}
    /\ success = Cardinality({ t \in Resolved : tpc[t] = "done" })
    /\ DirReturned => printed = errs

(* C4: the stages of a task run in the order Extracting, Transcribing,
   Formatting, Burning, Placing, and no stage of a task runs after one of its
   stages has failed. *)
C4_StageOrder ==
  \A t \in Tasks :
    /\ IsStagePrefix(ran[t])
    /\ extFail[t] # "none" =>
         /\ ran[t] # <<>>
         /\ ran[t][Len(ran[t])] = extFail[t]

(* C5: a file at a task's final destination is there only after that task's
   Extracting, Transcribing, Formatting and Burning stages succeeded, it is a
   complete output, and a task that failed has no file there. *)
C5_NoPartialOutput ==
  \A r \in dest :
    r.by # 0 =>
      /\ r.st = "complete"
      /\ extFail[r.by] = "none"
      /\ Len(ran[r.by]) = Len(Stages)

(* C6: once its set-up has succeeded transcribeDir returns nil and has
   written the summary line, whatever tasks failed. *)
C6_NeverBatchError ==
  DirReturned => (ret = "nil" /\ summary.written)

(* C7: the workspace exists before any task starts, and when transcribeDir
   or transcribeFile has returned the workspace and its contents are gone. *)
C7_WorkspaceScoped ==
  /\ \A t \in Tasks : tpc[t] # "pending" => tmp # "none"
  /\ (cpc = "exit" /\ ret \in {"nil", "error"}) =>
       (tmp \in {"none", "removed"} /\ tmpFiles = {})

\* a return with a failed task after artifacts were written
C7_Witness ==
  /\ cpc = "exit" /\ ret \in {"nil", "error"}
  /\ tmp = "removed" /\ tmpFiles = {}
  /\ \E t \in Tasks : tpc[t] = "failed" /\ Len(ran[t]) >= 2

(* C8: directory mode is a fan-out/join: the report is produced only after
   every resolved path's task is Done or Failed, and the command never stops
   with a resolved path whose task was not started or did not finish. *)
C8_FanOutJoin ==
  /\ AfterJoin => \A t \in Resolved : tpc[t] \in Terminal
  /\ (input.kind = "dir" /\ tmp # "none" /\ ~Running) =>
       \A t \in Resolved : tpc[t] \in Terminal

C10_ProgressCountsCompletions ==
  AfterJoin => prefixN = Cardinality(Resolved)

----------------------------------------------------------------------------
(* C11: a set-up error aborts before the batch starts: when the media tool is
   not found, the API key is empty, the input path cannot be stat'ed, the
   directory traversal fails or a single file has an unsupported extension
   (or any other set-up step fails), the command returns an error, no
   workspace was created and no task exists, so no stage ever ran. *)
C11_SetupAborts ==
  setupErr # "none" =>
    /\ ret = "error" /\ cpc = "exit"
    /\ tmp = "none" /\ tmpFiles = {}
    /\ Tasks = {}
    /\ ~summary.written /\ ~finalMsg

\* part_001: the traversal of a non-empty tree fails
C11_Witness ==
  /\ variant = "seq" /\ input.kind = "dir" /\ Len(input.tree) = MaxFiles
  /\ setupErr = "traversal"
  /\ ret = "error" /\ tmp = "none" /\ Tasks = {}

(* C12: single-file mode propagates the failure of the task: when one of the
   five stages of transcribeFile fails the command returns that error and
   the success message is never set; the command returns nil only after all
   five stages succeeded, and only then is the success message set. *)
C12_FileFailurePropagates ==
  (input.kind = "file" /\ Tasks # {}) =>
    /\ extFail[1] # "none" =>
         /\ ret = "error" /\ cpc = "exit"
         /\ tpc[1] = "failed"
         /\ ~finalMsg
    /\ ret = "nil" =>
         /\ extFail[1] = "none"
         /\ ran[1] = Stages
         /\ tpc[1] = "done"
    /\ finalMsg <=> ret = "nil"

\* the Burning stage of a single file fails after three stages succeeded
C12_Witness ==
  /\ input.kind = "file" /\ Tasks # {}
  /\ extFail[1] = "Burning"
  /\ ran[1] = << "Extracting", "Transcribing", "Formatting", "Burning" >>
  /\ ret = "error" /\ ~finalMsg

\* the input directory holds no supported video file, at any depth
EmptyBatch ==
  /\ input.kind = "dir"
  /\ \A i \in 1 .. Len(input.tree) :
       input.tree[i].isDir \/ ~ValidExt(input.tree[i])

(* C13: transcribeDir on a directory without a supported video file starts
   no task, ends with success = 0 and an empty failure list, and returns no
   error. *)
C13_EmptyBatch ==
  (EmptyBatch /\ tmp # "none") =>
    /\ \A t \in Tasks : tpc[t] = "pending"
    /\ Resolved = {}
    /\ success = 0 /\ errs = <<>>
    /\ ret \in {"running", "nil"}
    /\ cpc = "exit" =>
         /\ ret = "nil"
         /\ summary = [written |-> TRUE, success |-> 0, failed |-> 0]

\* a directory holding only a text file and a sub-directory has been processed
C13_Witness ==
  /\ EmptyBatch /\ Len(input.tree) = 2
  /\ DirReturned
  /\ ret = "nil" /\ success = 0 /\ errs = <<>>

\* C13 for the generation that resolves with filepath.WalkDir, whose callback
\* skips directories (part_001)
C13_EmptyBatch_WalkDir ==
  (EmptyBatch /\ tmp # "none" /\ variant = "seq") =>
    /\ \A t \in Tasks : tpc[t] = "pending"
    /\ success = 0 /\ errs = <<>>
    /\ ret \in {"running", "nil"}
    /\ cpc = "exit" => ret = "nil"

\* C13: main.go has run on a directory without a video file whose only
\* entry is a directory named like a video: a task was started, it failed,
\* and the command returned an error
C13_DirectoryBecameTask ==
  /\ EmptyBatch /\ variant = "main"
  /\ DirReturned
  /\ \E t \in Tasks : files[t].isDir /\ tpc[t] = "failed"
  /\ Len(errs) = 1
  /\ ret = "error"

\* the tasks the loop has started
Started == { t \in Tasks : tpc[t] # "pending" }

\* the loop over files has ended
LoopDone == input.kind = "dir" /\ tmp # "none" /\ idx > Len(files)

\* the paths of the non-directory entries below the root, at any depth, whose
\* lower-cased extension is a video format
VideoPathsUnderRoot ==
  { Join(Base(input.path), RelPath(input.tree[i])) :
      i \in { j \in 1 .. Len(input.tree) :
                ~input.tree[j].isDir /\ ValidExt(input.tree[j]) } }

(* C14: in part_001 and main.go a path becomes a task if and only if it is a
   non-directory entry under the root, at any depth, whose lower-cased
   extension is one of the video formats. *)
C14_Resolution ==
  (LoopDone /\ variant \in {"seq", "main"}) =>
    { FullPath(t) : t \in Started } = VideoPathsUnderRoot

\* the same in part_001 alone, whose resolution walks the tree
C14_Resolution_WalkDir ==
  (LoopDone /\ variant = "seq") =>
    { FullPath(t) : t \in Started } = VideoPathsUnderRoot

(* C15: for every input path, one with directory components included, a task
   that is Done has placed its output in a file named transcribed_<base name
   of the source, with extension>, and the artifact the Placing stage takes
   from the workspace is the one the Burning stage produced. *)
C15_OutputNamedAfterBase ==
  \A t \in Tasks :
    /\ tpc[t] = "done" =>
         \E r \in dest :
           /\ r.path = FinalVideoPath(t)
           /\ r.by # 0
           /\ r.name = "transcribed_" \o Base(files[t])
    /\ tpc[t] = "place" => TempVideoPath(t) \in tmpFiles

\* the same for the sources without directory components
C15_OutputNamedAfterBase_Flat ==
  \A t \in Tasks :
    (tpc[t] = "done" /\ (input.kind = "file" => files[t].dir = "")) =>
      \E r \in dest :
        /\ r.path = FinalVideoPath(t)
        /\ r.by # 0
        /\ r.name = "transcribed_" \o Base(files[t])

\* a finished call of getTimestamp, resp. of the escaping
TimestampDone == call.fn = "getTimestamp" /\ call.done
EscapedDone == call.fn = "Escaped" /\ call.done

(* C16: getTimestamp returns the reference values of its own comment:
   ts(0) = "00:00:00,000" and ts(186.4) = "00:03:06,400". *)
C16_ReferenceValues ==
  TimestampDone =>
    /\ call.t = 0 =>
         call.out = << "0", "0", ":", "0", "0", ":", "0", "0", ",", "0", "0", "0" >>
    /\ call.t = 186400 =>
         call.out = << "0", "0", ":", "0", "3", ":", "0", "6", ",", "4", "0", "0" >>

\* the first reference value alone
C16_ZeroValue ==
  (TimestampDone /\ call.t = 0) =>
    call.out = << "0", "0", ":", "0", "0", ":", "0", "0", ",", "0", "0", "0" >>

IsDigit(c) == \E i \in 1 .. Len(Digits) : c = Digits[i]

\* HH:MM:SS,mmm with fields of exactly 2, 2, 2 and 3 digits
HasShape(s) ==
  /\ Len(s) = 12
  /\ \A i \in {1, 2, 4, 5, 7, 8, 10, 11, 12} : IsDigit(s[i])
  /\ s[3] = ":" /\ s[6] = ":" /\ s[9] = ","

(* C17: for every non-negative time getTimestamp returns a string of the
   shape HH:MM:SS,mmm with fields of exactly 2, 2, 2 and 3 digits, and for
   3661.999 the hour field is at least 01. *)
C17_Shape ==
  TimestampDone =>
    /\ HasShape(call.out)
    /\ call.t = 3661999 => << call.out[1], call.out[2] >> # << "0", "0" >>

\* the shape for the times below one hundred seconds
C17_Shape_Below100s ==
  (TimestampDone /\ call.t < 100000) => HasShape(call.out)

\* what a one-pass escaping of each character gives
EscapeChar(c) ==
  CASE c = "\\" -> << "\\", "\\" >>
    [] c = ":"  -> << "\\", ":" >>
    [] OTHER    -> << c >>

RECURSIVE EscapedCharwise(_)
EscapedCharwise(s) ==
  IF s = <<>> THEN <<>> ELSE EscapeChar(Head(s)) \o EscapedCharwise(Tail(s))

(* C18: the subtitle path handed to the burn filter has every backslash
   doubled and then every colon preceded by a backslash, so every character
   is escaped exactly once: C:\clips\a.srt becomes C\:\\clips\\a.srt, and a
   path with neither backslash nor colon is left as it is. *)
C18_Escaping ==
  EscapedDone =>
    /\ call.out = EscapedCharwise(call.path)
    /\ call.path = WindowsPath =>
         call.out = << "C", "\\", ":", "\\", "\\", "c", "l", "i", "p", "s",
                       "\\", "\\", "a", ".", "s", "r", "t" >>
    /\ (\A i \in 1 .. Len(call.path) : call.path[i] \notin {"\\", ":"}) =>
         call.out = call.path

\* the Windows path has been escaped
C18_Witness ==
  /\ EscapedDone
  /\ call.path = WindowsPath
  /\ Len(call.out) = Len(WindowsPath) + 3

(* C19: a second run on the same source with the same destination, with the
   first run's output still in place, is not disturbed by it: a task that is
   Done has replaced the earlier output, its destination path holds exactly
   one file, a complete output written by this run, and no output appears at
   a path the first run did not use. *)
C19_Idempotent ==
  input.prior =>
    /\ \A t \in Tasks :
         tpc[t] = "done" =>
           /\ \E r \in dest : r.path = FinalVideoPath(t) /\ r.by # 0
           /\ Cardinality({ r \in dest : r.path = FinalVideoPath(t) }) = 1
    /\ { r.path : r \in dest } \subseteq { r.path : r \in PriorOutputs }
    /\ Cardinality(dest) = Cardinality({ r.path : r \in dest })

\* the second run of a single file is Done over the first run's output
C19_Witness ==
  /\ input.prior /\ input.kind = "file" /\ PriorOutputs # {}
  /\ cpc = "exit" /\ ret = "nil" /\ tpc = << "done" >>
  /\ \A r \in dest : r.by = 1 /\ r.st = "complete"
  /\ Cardinality(dest) = 1

\* no step of the command or of a task is possible
Stopped == ~ENABLED Next

(* C20: when every external call returns, transcribeDir cannot stop before
   its return: a state without a next step is one in which every started
   task is Done or Failed and transcribeDir has passed the join and returned;
   and the join is passed only when no started task is still running. *)
C20_BatchTerminates ==
  /\ (input.kind = "dir" /\ tmp # "none" /\ Stopped) =>
       /\ \A t \in Started : tpc[t] \in Terminal
       /\ cpc = "exit" /\ ret \in {"nil", "error"}
  /\ AfterJoin => \A t \in Started : tpc[t] \in Terminal

\* the same in the generations that keep the error in a variable of the task
C20_BatchTerminates_Synchronised ==
  Synchronised =>
    /\ (input.kind = "dir" /\ tmp # "none" /\ Stopped) =>
         /\ \A t \in Started : tpc[t] \in Terminal
         /\ cpc = "exit" /\ ret \in {"nil", "error"}
    /\ AfterJoin => \A t \in Started : tpc[t] \in Terminal

\* the liveness reading, under SpecFair: once the set-up of transcribeDir has
\* succeeded the command eventually returns (part_003, part_001)
C20_EventuallyReturns_Synchronised ==
  (Synchronised /\ input.kind = "dir" /\ tmp = "exists")
    ~> (cpc = "exit" /\ ret \in {"nil", "error"})

----------------------------------------------------------------------------
\* task t is inside a write to the shared batch result: between the read and
\* the store of errs = append(errs, e) or of success++, or between success++
\* and the assignment of spinner.Prefix
Writing(t) == tpc[t] \in {"append_write", "succ_write", "pfx_read", "pfx_write"}

(* C21: in the goroutine-based transcribeDir (main.go, part_003) every write
   to the shared batch result is made while holding the mutex, and no two
   tasks are inside such a write at the same time. *)
C21_WritesUnderMutex ==
  (input.kind = "dir" /\ variant \in {"main", "mutex"}) =>
    \A t \in Tasks :
      Writing(t) =>
        /\ mu = t
        /\ \A u \in Tasks \ {t} : ~Writing(u)

\* the same in part_003 alone
C21_WritesUnderMutex_Part003 ==
  (input.kind = "dir" /\ variant = "mutex") =>
    \A t \in Tasks :
      Writing(t) =>
        /\ mu = t
        /\ \A u \in Tasks \ {t} : ~Writing(u)

\* the exclusion alone: no two tasks are inside a write at the same time
\* (violated by main.go)
C21_TwoWriters ==
  \A t \in Tasks, u \in Tasks : (t # u /\ Writing(t)) => ~Writing(u)

\* stage s of task t has run and its call succeeded
Succeeded(t, s) ==
  /\ \E i \in 1 .. Len(ran[t]) : ran[t][i] = s
  /\ extFail[t] # s

\* the workspace paths task t has written so far
Wrote(t) ==
  (IF Succeeded(t, "Extracting") THEN { AudioPath(t) } ELSE {})
  \cup (IF Succeeded(t, "Formatting") THEN { SrtPath(t) } ELSE {})
  \cup (IF Succeeded(t, "Burning") THEN { TempVideoPath(t) } ELSE {})

\* the tasks of this generation run concurrently
Concurrent == input.kind = "dir" /\ variant \in {"main", "mutex"}

(* C22: workspace artifacts are namespaced by the source's base name: two
   distinct tasks that run concurrently in the shared workspace never write
   the audio artifact, the subtitle file or the burned video to the same
   workspace path. *)
C22_ArtifactsNamespaced ==
  Concurrent =>
    \A t \in Tasks, u \in Tasks :
      t # u => Wrote(t) \cap Wrote(u) = {}

\* the same in part_003, whose GenerateSrtFile is given the file name
C22_ArtifactsNamespaced_Part003 ==
  (Concurrent /\ variant = "mutex") =>
    \A t \in Tasks, u \in Tasks :
      t # u => Wrote(t) \cap Wrote(u) = {}

\* task t is at an external call: ffmpeg, the transcription service or a
\* filesystem write
InCall(t) ==
  tpc[t] \in {"extract", "transcribe", "format", "burn", "place",
              "place_create", "place_copy"}

\* some step of task t
TaskStep(t) ==
  \/ Extract(t) \/ ExtractCheck(t) \/ ExtractErrMsg(t)
  \/ Transcribe(t) \/ Format(t) \/ Burn(t) \/ Place(t)
  \/ PlaceCreate(t) \/ PlaceCopy(t)
  \/ Lock(t) \/ AppendRead(t) \/ AppendWrite(t) \/ Unlock(t)
  \/ SuccRead(t) \/ SuccWrite(t) \/ PrefixRead(t) \/ PrefixWrite(t)

\* while task t is in an external call the loop can take its next entry and
\* every other unfinished task can take a step, unless it waits for the mutex
\* held by a task that is not in an external call
OthersAdvance(t) ==
  /\ idx <= Len(files) => ENABLED (TD_Go \/ TD_Skip)
  /\ \A u \in Tasks \ {t} :
       tpc[u] \notin Terminal \cup {"pending"} =>
         \/ ENABLED TaskStep(u)
         \/ mu \in Tasks \ {u} /\ ~InCall(mu)

(* C23: tasks do not block each other (part_001, part_003): while one task
   is suspended in an external call, every other resolved path can still be
   started and every other task can still advance. *)
C23_NonBlocking ==
  (InDir /\ variant \in {"seq", "mutex"}) =>
    \A t \in Tasks : InCall(t) => OthersAdvance(t)

\* the same in part_003 alone, whose tasks are goroutines
C23_NonBlocking_Part003 ==
  (InDir /\ variant = "mutex") =>
    \A t \in Tasks : InCall(t) => OthersAdvance(t)

\* the positions of a task between the error of a stage and its end
FailurePath == {"lock_err", "append_read", "append_write", "unlock_err", "failed"}

(* C24: no work is retried (part_001, part_003): within one run each stage of
   a task is invoked at most once, and after a stage has failed the task is
   on its way to Failed: the failed stage is the last one it ran. *)
C24_NoRetry ==
  Synchronised =>
    \A t \in Tasks :
      /\ \A i \in 1 .. Len(ran[t]), j \in 1 .. Len(ran[t]) :
           i # j => ran[t][i] # ran[t][j]
      /\ extFail[t] # "none" =>
           /\ ran[t][Len(ran[t])] = extFail[t]
           /\ tpc[t] \in FailurePath

\* a transient failure of the transcription service has ended the task
C24_Witness ==
  /\ variant = "seq" /\ input.kind = "dir"
  /\ \E t \in Tasks :
       /\ extFail[t] = "Transcribing"
       /\ ran[t] = << "Extracting", "Transcribing" >>
       /\ tpc[t] = "failed"
  /\ DirReturned

(* C25: every failure entry identifies both the stage that failed and the
   source video: the error appended for a failed stage is wrapped with the
   stage and the source path. *)
C25_ErrorsWrapped ==
  \A i \in 1 .. Len(errs) : errs[i].wraps = {"stage", "source"}

\* the entries of the Extracting stage are wrapped with both
C25_ErrorsWrapped_Extracting ==
  \A i \in 1 .. Len(errs) :
    errs[i].stage = "Extracting" => errs[i].wraps = {"stage", "source"}

\* every entry but the one of the Placing stage names its stage
C25_ErrorsWrapped_Stage ==
  \A i \in 1 .. Len(errs) :
    errs[i].stage # "Placing" => "stage" \in errs[i].wraps


\* ---- TranscribeVideo and the response schema ----

TranscribeDone == cpc = "pure" /\ call.fn = "TranscribeVideo" /\ call.done

\* the payload lacks a field TranscriptSchema lists as Required
LacksRequired(p) ==
  \/ p.language = "absent"
  \/ p.segments.kind = "absent"
  \/ \E i \in 1 .. Len(p.segments.items) :
       \/ p.segments.items[i].start = "absent"
       \/ p.segments.items[i].end = "absent"
       \/ p.segments.items[i].text = "absent"

\* C26: TranscribeVideo returns an error when the upload fails, when the
\* remote call fails, and for every payload that lacks the language or the
\* segments field or in which a segment lacks its start, end or text
C26_SchemaEnforced ==
  TranscribeDone =>
    ( ( \/ ~call.env.upload
        \/ ~call.env.generate
        \/ call.payload.syntax = "bad"
        \/ LacksRequired(call.payload) )
      => call.res.err # "nil" )

\* C26, the part the code has: a failed upload, a failed remote call, text
\* that is not JSON and a field of the wrong JSON type are errors, and an
\* error comes with the zero Schema
C26_CallAndTypeErrorsRejected ==
  TranscribeDone =>
    /\ ( ( \/ ~call.env.client
           \/ ~call.env.upload
           \/ ~call.env.generate
           \/ UnmarshalFails(call.payload) )
         <=> call.res.err # "nil" )
    /\ (call.res.err # "nil" => call.res.schema = ZeroSchema)

\* C26: a payload without language and without segments is returned as a
\* Transcript
C26_EmptyObjectAccepted ==
  /\ TranscribeDone
  /\ call.payload.syntax = "ok"
  /\ call.payload.language = "absent"
  /\ call.payload.segments.kind = "absent"
  /\ call.res.err = "nil"
  /\ call.res.schema = ZeroSchema

\* C24 inside TranscribeVideo: no call is made twice, and an error is
\* returned by the call made last
C24_NoRetry_TranscribeVideo ==
  TranscribeDone =>
    /\ \A i, j \in 1 .. Len(call.res.calls) :
         call.res.calls[i] = call.res.calls[j] => i = j
    /\ (~call.env.client => call.res.calls = << "NewClient" >>)
    /\ ((call.env.client /\ ~call.env.upload)
          => call.res.calls[Len(call.res.calls)] = "UploadFromPath")
    /\ ((call.env.client /\ call.env.upload /\ ~call.env.generate)
          => call.res.calls[Len(call.res.calls)] = "GenerateContent")

\* ---- GenerateSrtFile ----

SrtDone ==
  cpc = "pure" /\ call.fn = "GenerateSrtFile" /\ call.done /\ call.env.write

\* the lines of a text: the characters before each "\n"
RECURSIVE LinesFrom(_, _, _)
LinesFrom(s, i, cur) ==
  IF i > Len(s) THEN (IF cur = <<>> THEN <<>> ELSE << cur >>)
  ELSE IF s[i] = "\n" THEN << cur >> \o LinesFrom(s, i + 1, <<>>)
  ELSE LinesFrom(s, i + 1, Append(cur, s[i]))

Lines(s) == LinesFrom(s, 1, <<>>)

NonEmptyLines(s) == SelectSeq(Lines(s), LAMBDA l : l # <<>>)

IndexLine(i) == Itoa(i)

TimeLine(v) ==
  getTimestamp(v.start) \o << " ", "-", "-", ">", " " >> \o getTimestamp(v.end)

TextLine(v) == << "-", " " >> \o v.text

\* C27: the subtitle text has one cue per segment, in the order of the
\* segments: its non-empty lines are, for the i-th segment, the line i, the
\* line ts(start) --> ts(end) and the line "- " followed by the text
C27_OneCuePerSegment ==
  SrtDone =>
    LET L == NonEmptyLines(call.out)
        n == Len(call.segs)
    IN  /\ Len(L) = 3 * n
        /\ \A i \in 1 .. n :
             /\ L[3 * i - 2] = IndexLine(i)
             /\ L[3 * i - 1] = TimeLine(call.segs[i])
             /\ L[3 * i] = TextLine(call.segs[i])

\* C27: a transcript of two segments, the later one first, has been written
C27_Witness ==
  /\ SrtDone
  /\ Len(call.segs) = 2
  /\ call.segs[1].start > call.segs[2].start
  /\ call.segs[1].text # call.segs[2].text
  /\ Len(NonEmptyLines(call.out)) = 6

\* C28: for a transcript of two or more segments an empty line stands
\* between the text line of cue i and the index line of cue i+1
C28_BlankLineBetweenCues ==
  SrtDone =>
    LET L == Lines(call.out)
        n == Len(call.segs)
    IN  \A i \in 1 .. n - 1 :
          \E k \in 1 .. Len(L) - 2 :
            /\ L[k] = TextLine(call.segs[i])
            /\ L[k + 1] = <<>>
            /\ L[k + 2] = IndexLine(i + 1)

\* C28, what the code writes: no empty line at all; the index line of the
\* next cue follows the text line
C28_NoBlankLine ==
  SrtDone =>
    LET L == Lines(call.out)
    IN  /\ \A k \in 1 .. Len(L) : L[k] # <<>>
        /\ \A i \in 1 .. Len(call.segs) - 1 :
             /\ L[3 * i] = TextLine(call.segs[i])
             /\ L[3 * i + 1] = IndexLine(i + 1)


\* ---- the extraction result and the shared err ----

RanStage(t, stage) == \E i \in 1 .. Len(ran[t]) : ran[t][i] = stage

RecordedAs(t, stage) ==
  \E i \in 1 .. Len(errs) : errs[i].task = t /\ errs[i].stage = stage

OwnExtractionDecides(t) ==
  /\ extFail[t] = "Extracting" => ~RanStage(t, "Transcribing")
  /\ RecordedAs(t, "Extracting") => extFail[t] = "Extracting"

\* C29: in main.go's transcribeDir a task whose own extraction call failed
\* never runs the Transcribing stage, and a task whose own extraction call
\* succeeded is never recorded as an extraction failure
C29_OwnExtractionDecides ==
  (input.kind = "dir" /\ variant = "main") =>
    \A t \in Tasks : OwnExtractionDecides(t)

\* C29 where the error of the extraction is a variable of the task
\* (part_003: `err := VideoToMp3(...)`)
C29_OwnExtractionDecides_Part003 ==
  (input.kind = "dir" /\ variant = "mutex") =>
    \A t \in Tasks : OwnExtractionDecides(t)

\* C29: a task transcribes after its own extraction failed
C29_TranscribesAfterFailedExtraction ==
  /\ input.kind = "dir" /\ variant = "main"
  /\ \E t \in Tasks : extFail[t] = "Extracting" /\ RanStage(t, "Transcribing")

\* C29: a task whose extraction succeeded is in the failure list as an
\* extraction failure
C29_RecordedForSibling ==
  /\ input.kind = "dir" /\ variant = "main"
  /\ \E t \in Tasks :
       /\ RanStage(t, "Extracting") /\ extFail[t] # "Extracting"
       /\ RecordedAs(t, "Extracting")


\* ---- one output per success ----

\* the files this batch has placed at the final destination
PlacedOutputs == { r \in dest : r.by # 0 /\ r.st = "complete" }

\* no two videos of the batch have the same base name
DistinctBases ==
  \A t, u \in Resolved : Base(files[t]) = Base(files[u]) => t = u

\* C30: after a directory batch of the sequential walk the number of distinct
\* transcribed_ files the batch placed at the destination equals the success
\* count
C30_OneOutputPerSuccess ==
  (DirReturned /\ variant = "seq") =>
    Cardinality({ r.path : r \in PlacedOutputs }) = success

\* C30 for batches whose videos have distinct base names
C30_OneOutputPerSuccess_DistinctBases ==
  (DirReturned /\ variant = "seq" /\ DistinctBases) =>
    Cardinality({ r.path : r \in PlacedOutputs }) = success

\* C30: two successes, one output file
C30_OutputOverwritten ==
  /\ DirReturned /\ variant = "seq"
  /\ success = 2
  /\ Cardinality({ r.path : r \in PlacedOutputs }) = 1


\* ---- the workspace and the join ----

\* the task has been started and is neither Done nor Failed
InFlight(t) == tpc[t] \notin Terminal \cup {"pending"}

\* C31: in the goroutine-based transcribeDir the temporary directory is
\* removed only after the join: once it is removed no task is in a
\* non-terminal stage, every video of the batch is Done or Failed, and the
\* entries never started are the ones that are no videos
C31_WorkspaceOutlivesTasks ==
  (input.kind = "dir" /\ variant \in {"main", "mutex"} /\ tmp = "removed") =>
    \A t \in Tasks :
      /\ ~InFlight(t)
      /\ ValidExt(files[t]) <=> tpc[t] \in Terminal

\* C31: the workspace exists as long as a task is in flight, whatever the
\* task's stage
C31_WorkspaceWhileInFlight ==
  (input.kind = "dir" /\ variant \in {"main", "mutex"}) =>
    ((\E t \in Tasks : InFlight(t)) => tmp = "exists")

\* C31: the workspace of a goroutine-based batch is removed after one task
\* ended Done and another ended Failed
C31_Witness ==
  /\ input.kind = "dir" /\ variant \in {"main", "mutex"}
  /\ tmp = "removed"
  /\ \E t, u \in Tasks : tpc[t] = "done" /\ tpc[u] = "failed"


\* ---- failed tasks and the final destination ----

\* the files at the final destination when the command starts
InitialDest == IF input.prior THEN PriorOutputs ELSE {}

\* a directory run has returned and every video of the batch ended Failed
AllFailed ==
  /\ DirReturned
  /\ Resolved # {}
  /\ \A t \in Resolved : tpc[t] = "failed"

\* C32: after a directory run of main.go or part_001 in which every task
\* failed, the files that were at the final destination before the run are
\* still there as they were, and nothing else is
C32_FailedLeavesDestination ==
  (AllFailed /\ variant \in {"main", "seq"}) => dest = InitialDest

\* C32 for the generations that place by os.Rename and do not reset the
\* destination
C32_FailedLeavesDestination_Rename ==
  (AllFailed /\ variant \in {"mutex", "seq"}) => dest = InitialDest

\* C32: the outputs of an earlier run are gone after a run of main.go in
\* which every task failed
C32_PriorOutputsRemoved ==
  /\ AllFailed /\ variant = "main"
  /\ input.prior /\ PriorOutputs # {}
  /\ dest = {}

\* C32: a task of main.go that ended Failed has left a partial file at the
\* final destination
C32_PartialOutputLeft ==
  /\ AllFailed /\ variant = "main"
  /\ \E r \in dest : r.st = "partial" /\ tpc[r.by] = "failed"

====
